---- MODULE Spec2Model ----
(***************************************************************************)
(* Model of src/arbing.py: the match normaliser (process_data), the        *)
(* opportunity filter (get_arbitrage_opportunities) and the stake          *)
(* allocator (calculate_stakes).                                           *)
(*                                                                         *)
(* Prices are decimal odds with two decimals and are written as integer    *)
(* hundredths (210 is the JSON number 2.10).  Every arithmetic step the    *)
(* source performs on a Python float is performed here on an IEEE-754      *)
(* binary64 value, round-to-nearest-even, built from natural numbers kept  *)
(* as little-endian sequences of 14-bit limbs.                             *)
(***************************************************************************)
EXTENDS Integers, Sequences, FiniteSets, TLC

(***************************************************************************)
(* Natural numbers of arbitrary size (Python int / float significand).     *)
(***************************************************************************)
LimbBits == 14
Base == 16384

RECURSIVE BNorm(_)
BNorm(x) ==
    IF x = <<>> THEN <<>>
    ELSE IF x[Len(x)] = 0 THEN BNorm(SubSeq(x, 1, Len(x) - 1)) ELSE x

RECURSIVE BFromInt(_)
BFromInt(n) ==
    IF n = 0 THEN <<>> ELSE <<n % Base>> \o BFromInt(n \div Base)

RECURSIVE BAddC(_, _, _)

\* sum the sum of the lowest limbs and the carry
BAddS(x, y, sum) ==
    <<sum % Base>> \o BAddC(IF x = <<>> THEN <<>> ELSE Tail(x),
                            IF y = <<>> THEN <<>> ELSE Tail(y),
                            sum \div Base)

BAddC(x, y, c) ==
    IF x = <<>> /\ y = <<>> THEN (IF c = 0 THEN <<>> ELSE <<c>>)
    ELSE BAddS(x, y, (IF x = <<>> THEN 0 ELSE x[1])
                       + (IF y = <<>> THEN 0 ELSE y[1]) + c)

BAdd(x, y) == BAddC(x, y, 0)

RECURSIVE BSubC(_, _, _)

\* diff the difference of the lowest limbs and the borrow
BSubD(x, y, diff) ==
    <<diff % Base>> \o BSubC(Tail(x), IF y = <<>> THEN <<>> ELSE Tail(y),
                             IF diff < 0 THEN 1 ELSE 0)

BSubC(x, y, c) ==
    IF x = <<>> THEN <<>>
    ELSE BSubD(x, y, x[1] - (IF y = <<>> THEN 0 ELSE y[1]) - c)

\* x - y for x >= y
BSub(x, y) == BNorm(BSubC(x, y, 0))

RECURSIVE BCmpFrom(_, _, _)
BCmpFrom(x, y, i) ==
    IF i = 0 THEN 0
    ELSE IF x[i] > y[i] THEN 1
    ELSE IF x[i] < y[i] THEN -1
    ELSE BCmpFrom(x, y, i - 1)

\* -1, 0, 1 as x < y, x = y, x > y
BCmp(x, y) ==
    IF Len(x) > Len(y) THEN 1
    ELSE IF Len(x) < Len(y) THEN -1
    ELSE BCmpFrom(x, y, Len(x))

RECURSIVE BMulC(_, _, _)

\* prod the product of the lowest limb plus the carry
BMulP(x, k, prod) == <<prod % Base>> \o BMulC(Tail(x), k, prod \div Base)

BMulC(x, k, c) ==
    IF x = <<>> THEN BFromInt(c)
    ELSE BMulP(x, k, x[1] * k + c)

\* x * k for 0 <= k < 2^16
BMulSmall(x, k) == BNorm(BMulC(x, k, 0))

BZeros(n) == [i \in 1..n |-> 0]

\* x * 2^n
BShl(x, n) ==
    IF x = <<>> THEN <<>>
    ELSE BZeros(n \div LimbBits) \o BMulSmall(x, 2 ^ (n % LimbBits))

\* floor(top / low) for low = 2^r, high = 2^(LimbBits - r)
BShrBits(top, low, high) ==
    BNorm([i \in 1..Len(top) |->
             (top[i] \div low)
               + (IF i < Len(top) THEN (top[i + 1] % low) * high ELSE 0)])

\* floor(x / 2^n)
BShr(x, n) ==
    BShrBits(IF n \div LimbBits >= Len(x) THEN <<>>
             ELSE SubSeq(x, n \div LimbBits + 1, Len(x)),
             2 ^ (n % LimbBits), 2 ^ (LimbBits - (n % LimbBits)))

RECURSIVE IntBitLen(_)
IntBitLen(n) == IF n = 0 THEN 0 ELSE 1 + IntBitLen(n \div 2)

BBitLen(x) ==
    IF x = <<>> THEN 0 ELSE LimbBits * (Len(x) - 1) + IntBitLen(x[Len(x)])

BIsOdd(x) == x # <<>> /\ x[1] % 2 = 1

\* fl or fl + 1 as half (the remainder compared with 1/2) rounds to nearest,
\* ties to even
BNearest(fl, half) ==
    IF half = 1 \/ (half = 0 /\ BIsOdd(fl)) THEN BAdd(fl, <<1>>) ELSE fl

BRoundFrom(x, k, fl) ==
    BNearest(fl, BCmp(BSub(x, BShl(fl, k)), BShl(<<1>>, k - 1)))

\* round x / 2^k to the nearest natural number, ties to even
BShrRound(x, k) == IF k = 0 THEN x ELSE BRoundFrom(x, k, BShr(x, k))

\* x * y, limb by limb
RECURSIVE BMulLimbs(_, _)
BMulLimbs(x, y) ==
    IF y = <<>> THEN <<>>
    ELSE BAdd(BMulC(x, y[1], 0), <<0>> \o BMulLimbs(x, Tail(y)))

BMul(x, y) == BNorm(BMulLimbs(x, y))

(***************************************************************************)
(* Python int: s * m with s the sign (0 for 0) and m a natural number.     *)
(***************************************************************************)
ZZero == [s |-> 0, m |-> <<>>]

ZSigned(s, m) == IF m = <<>> THEN ZZero ELSE [s |-> s, m |-> m]

ZFromInt(n) ==
    IF n = 0 THEN ZZero
    ELSE [s |-> IF n < 0 THEN -1 ELSE 1,
          m |-> BFromInt(IF n < 0 THEN -n ELSE n)]

ZNeg(a) == [a EXCEPT !.s = -a.s]

\* a + b for a, b # 0 of opposite signs, ord comparing |a| with |b|
ZAddMixed(a, b, ord) ==
    IF ord = 0 THEN ZZero
    ELSE IF ord > 0 THEN [s |-> a.s, m |-> BSub(a.m, b.m)]
    ELSE [s |-> b.s, m |-> BSub(b.m, a.m)]

ZAdd(a, b) ==
    IF a.s = 0 THEN b
    ELSE IF b.s = 0 THEN a
    ELSE IF a.s = b.s THEN [s |-> a.s, m |-> BAdd(a.m, b.m)]
    ELSE ZAddMixed(a, b, BCmp(a.m, b.m))

ZSub(a, b) == ZAdd(a, ZNeg(b))

\* a < b
ZLess(a, b) == ZSub(a, b).s = -1

(***************************************************************************)
(* Python float: s * m * 2^e with s the sign (0 for 0.0) and m a 53-bit    *)
(* significand.                                                            *)
(***************************************************************************)
Precision == 53

FZero == [s |-> 0, m |-> <<>>, e |-> 0]

\* a rounded significand of Precision or Precision + 1 bits, as a float
FPack(s, sig, e) ==
    IF BBitLen(sig) > Precision
    THEN [s |-> s, m |-> BShr(sig, 1), e |-> e + 1]
    ELSE [s |-> s, m |-> sig, e |-> e]

FRoundBits(s, S, e, bits) ==
    IF bits <= Precision
    THEN [s |-> s, m |-> BShl(S, Precision - bits),
          e |-> e - (Precision - bits)]
    ELSE FPack(s, BShrRound(S, bits - Precision), e + bits - Precision)

\* the float nearest to s * S * 2^e, for a natural number S > 0
FRound(s, S, e) == FRoundBits(s, S, e, BBitLen(S))

FFromInt(n) ==
    IF n = 0 THEN FZero
    ELSE FRound(IF n < 0 THEN -1 ELSE 1, BFromInt(IF n < 0 THEN -n ELSE n), 0)

\* float(a) for a Python int a: the nearest float
FFromZ(a) == IF a.s = 0 THEN FZero ELSE FRound(a.s, a.m, 0)

FNeg(a) == [a EXCEPT !.s = -a.s]

\* x * Base + d for a limb d
BPush(x, d) == IF x = <<>> /\ d = 0 THEN <<>> ELSE <<d>> \o x

\* the largest digit g <= guess with g * d <= r
RECURSIVE BDigit(_, _, _)
BDigit(r, d, guess) ==
    IF BCmp(BMulSmall(d, guess), r) > 0 THEN BDigit(r, d, guess - 1) ELSE guess

\* one step of long division by d (top limb of d >= Base / 2):
\* st = <<remainder, quotient>>, limb the next limb of the dividend
BDivTake(r1, q, d, g) == <<BSub(r1, BMulSmall(d, g)), BPush(q, g)>>

BDivGuess(r1, q, d, est) ==
    BDivTake(r1, q, d, BDigit(r1, d, IF est > Base - 1 THEN Base - 1 ELSE est))

BDivTop(r1, q, d, len) ==
    BDivGuess(r1, q, d,
              ((IF Len(r1) > len THEN r1[len + 1] * Base ELSE 0)
                 + (IF Len(r1) >= len THEN r1[len] ELSE 0)) \div d[len])

BDivStep(st, d, limb) == BDivTop(BPush(st[1], limb), st[2], d, Len(d))

RECURSIVE BDivLoop(_, _, _, _)
BDivLoop(x, i, st, d) ==
    IF i = 0 THEN st ELSE BDivLoop(x, i - 1, BDivStep(st, d, x[i]), d)

\* <<x mod d, floor(x / d)>> for d > 0 whose top limb is >= Base / 2; the
\* leading Len(d) - 1 limbs of x are below d and start as the remainder
BDivMod(x, d) ==
    IF Len(x) < Len(d) THEN <<x, <<>>>>
    ELSE BDivLoop(x, Len(x) - Len(d) + 1,
                  <<SubSeq(x, Len(x) - Len(d) + 2, Len(x)), <<>>>>, d)

QuotientBits == 56

\* the float nearest to s * (N / D) * 2^e, for natural numbers N, D > 0
\* the quotient with a sticky bit for a remainder that is not 0
FSticky(dm) == BAdd(BShl(dm[2], 1), IF dm[1] = <<>> THEN <<>> ELSE <<1>>)

FRatioBy(s, N, D, e, norm, up) ==
    FRound(s, FSticky(BDivMod(BShl(N, norm + up), BShl(D, norm))), e - up - 1)

FRatioPad(s, N, D, e, norm, pad) ==
    FRatioBy(s, N, D, e, norm, IF pad > 0 THEN pad ELSE 0)

FRatio(s, N, D, e) ==
    FRatioPad(s, N, D, e, (LimbBits - (BBitLen(D) % LimbBits)) % LimbBits,
              QuotientBits + BBitLen(D) - BBitLen(N))

\* the float a JSON/Python literal c/scale denotes
FFromRatio(c, scale) ==
    IF c = 0 THEN FZero
    ELSE FRatio(IF c < 0 THEN -1 ELSE 1,
                BFromInt(IF c < 0 THEN -c ELSE c), BFromInt(scale), 0)

\* a / b, b # 0.0
FDiv(a, b) ==
    IF a.s = 0 THEN FZero ELSE FRatio(a.s * b.s, a.m, b.m, a.e - b.e)

MaxAlign == 64

\* hi + lo for hi.e >= lo.e, big the significand of hi at lo's exponent
FAddAligned(hi, lo, big, ord) ==
    IF hi.s = lo.s THEN FRound(hi.s, BAdd(big, lo.m), lo.e)
    ELSE IF ord = 0 THEN FZero
    ELSE IF ord > 0 THEN FRound(hi.s, BSub(big, lo.m), lo.e)
    ELSE FRound(lo.s, BSub(lo.m, big), lo.e)

FAddShift(hi, lo, big) == FAddAligned(hi, lo, big, BCmp(big, lo.m))

FAddOrdered(hi, lo) ==
    IF hi.e - lo.e > MaxAlign THEN hi
    ELSE FAddShift(hi, lo, BShl(hi.m, hi.e - lo.e))

\* a + b
FAdd(a, b) ==
    IF a.s = 0 THEN b
    ELSE IF b.s = 0 THEN a
    ELSE IF a.e >= b.e THEN FAddOrdered(a, b) ELSE FAddOrdered(b, a)

FSub(a, b) == FAdd(a, FNeg(b))

\* a * b
FMul(a, b) ==
    IF a.s = 0 \/ b.s = 0 THEN FZero
    ELSE FRound(a.s * b.s, BMul(a.m, b.m), a.e + b.e)

\* -1, 0, 1 as |a| < |b|, |a| = |b|, |a| > |b|, for a, b # 0.0
FCmpMag(a, b) ==
    IF a.e # b.e THEN (IF a.e > b.e THEN 1 ELSE -1) ELSE BCmp(a.m, b.m)

\* a < b
FLess(a, b) ==
    IF a.s # b.s THEN a.s < b.s
    ELSE IF a.s = 1 THEN FCmpMag(a, b) < 0
    ELSE IF a.s = -1 THEN FCmpMag(a, b) > 0
    ELSE FALSE

\* int(a): truncation toward zero, a Python int
FTrunc(a) ==
    IF a.s = 0 THEN ZZero
    ELSE ZSigned(a.s, IF a.e >= 0 THEN BShl(a.m, a.e) ELSE BShr(a.m, -a.e))

\* round(a, 2), as a Python int of hundredths
FRound2(a) ==
    IF a.s = 0 THEN ZZero
    ELSE ZSigned(a.s, IF a.e >= 0 THEN BShl(BMulSmall(a.m, 100), a.e)
                      ELSE BShrRound(BMulSmall(a.m, 100), -a.e))

(***************************************************************************)
(* Bounds of the model.                                                    *)
(***************************************************************************)
MaxTime == 1          \* the clock runs over 0..MaxTime
MaxBookmakers == 2    \* bookmakers per match
MaxOutcomes == 3      \* outcomes of an odds mapping given to calculate_stakes
MaxStake == 3         \* small total stakes 1..MaxStake

(***************************************************************************)
(* Module constants of arbing.py.                                          *)
(***************************************************************************)
TOTAL_STAKE == 1000   \* also the default of calculate_stakes' total_stake
CUTOFF == 1           \* 0.01, in hundredths

\* the float of a price given in hundredths
Price(p) == FFromRatio(p, 100)

(***************************************************************************)
(* Inputs.  A dict is a record; a key that may be absent holds <<>> when   *)
(* absent and <<value>> when present.                                      *)
(***************************************************************************)
Names == <<"A", "B", "C", "D">>

Quote(n, p) == [name |-> n, price |-> p]

Market(outs) == [outcomes |-> <<outs>>]

\* the outcome lists a bookmaker's market may carry
OutcomeLists ==
    {<<Quote("A", 200)>>,
     <<Quote("A", 200), Quote("B", 250)>>,
     <<Quote("A", 250), Quote("B", 200)>>,
     <<Quote("A", -200), Quote("B", 200)>>}

\* the bookmaker dicts the data source may deliver (without their title)
BookmakerDicts ==
    {[markets |-> <<>>],                              \* no "markets" key
     [markets |-> << <<>> >>],                        \* "markets": []
     [markets |-> << <<Market(<<>>),
                       Market(<<Quote("A", 250), Quote("B", 250)>>)>> >>]}
      \cup {[markets |-> << <<Market(o)>> >>] : o \in OutcomeLists}

\* the match dicts, before their bookmakers are read
MatchHeaders ==
    [commence_time : {<<>>, <<0>>},
     home_team : {<<>>, <<"H">>},
     away_team : {<<>>, <<"W">>},
     sport_key : {<<"soccer">>},
     bookmakers : {<<>>}]

Cutoffs == {CUTOFF, 10}

StakePrices == {0, 120, 150, 200, 300, 480}

\* the total stakes calculate_stakes is applied to on its own
Stakes == {ZFromInt(k) : k \in (1..MaxStake) \cup {100, TOTAL_STAKE}}

\* total stakes above 2^53, where not every Python int is a float
LargeStakes ==
    {ZAdd(ZSigned(1, BShl(<<1>>, Precision)), ZFromInt(k)) : k \in 1..MaxStake}

\* the odds mappings calculate_stakes is applied to on its own
OddsDicts ==
    UNION {{[i \in 1..n |-> [name |-> Names[i], bookie |-> 1, price |-> f[i]]] :
              f \in [1..n -> StakePrices]} : n \in 2..MaxOutcomes}

NoMatch == [commence_time |-> <<>>, home_team |-> <<>>, away_team |-> <<>>,
            sport_key |-> <<>>, bookmakers |-> <<>>]

NoItem == <<>>

VARIABLES
    now,                      \* time.time(), in seconds
    include_started_matches,  \* argument of process_data
    cutoff,                   \* argument of get_arbitrage_opportunities
    match,                    \* the raw match being processed, as read so far
    best_odds,                \* process_data's best_odds
    item,                     \* the dict process_data yielded last
    pc,                       \* where the pipeline stands
    last,                     \* what became of the last match
    odds_dict,                \* calculate_stakes' arguments and locals
    total_stake,
    ideal_stakes,
    rounded_stakes,
    remainder,
    order,
    result,
    spc                       \* where calculate_stakes stands

pipeVars == <<now, include_started_matches, cutoff, match,
              best_odds, item, pc, last>>
stakeVars == <<odds_dict, total_stake, ideal_stakes, rounded_stakes,
               remainder, order, result, spc>>
vars == <<pipeVars, stakeVars>>

(***************************************************************************)
(* calculate_stakes(odds_dict, total_stake)                                *)
(***************************************************************************)
\* sum(...) of Python ints
RECURSIVE ZSum(_, _)
ZSum(f, n) == IF n = 0 THEN ZZero ELSE ZAdd(ZSum(f, n - 1), f[n])

\* sum(...) of floats: left to right, starting from 0
RECURSIVE FSum(_, _)
FSum(f, n) == IF n = 0 THEN FZero ELSE FAdd(FSum(f, n - 1), f[n])

\* Step 1: 1 / data[1] for every outcome
InverseOdds(odds) ==
    [i \in 1..Len(odds) |-> FDiv(FFromInt(1), Price(odds[i].price))]

\* Step 2: (inv / total_inverse) * total_stake
IdealStakes(inv, total, stake) ==
    [i \in 1..Len(inv) |-> FMul(FDiv(inv[i], total), FFromZ(stake))]

\* Step 3: int(stake)
RoundedStakes(ideal) == [i \in 1..Len(ideal) |-> FTrunc(ideal[i])]

\* Step 4: ideal_stakes[outcome] - rounded_stakes[outcome]
StakeDiffs(ideal, rounded) ==
    [i \in 1..Len(ideal) |-> FSub(ideal[i], FFromZ(rounded[i]))]

\* mutant: of two outcomes with equal keys the later one comes first
RECURSIVE InsertBeforeEqual(_, _, _)
InsertBeforeEqual(sorted, i, key) ==
    IF sorted = <<>> THEN <<i>>
    ELSE IF ~FLess(key[i], key[Head(sorted)]) THEN <<i>> \o sorted
    ELSE <<Head(sorted)>> \o InsertBeforeEqual(Tail(sorted), i, key)

\* i placed in a list sorted by descending key, behind the entries whose
\* key is not smaller
RECURSIVE InsertDesc(_, _, _)
InsertDesc(sorted, i, key) ==
    IF sorted = <<>> THEN <<i>>
    ELSE IF FLess(key[Head(sorted)], key[i]) THEN <<i>> \o sorted
    ELSE <<Head(sorted)>> \o InsertDesc(Tail(sorted), i, key)

\* sorted(stake_diffs, key=stake_diffs.get, reverse=True): a stable sort
RECURSIVE SortedDesc(_, _)
SortedDesc(key, n) ==
    IF n = 0 THEN <<>> ELSE InsertDesc(SortedDesc(key, n - 1), n, key)

\* Step 5: (bookie, odd, stake, profit), the profit in hundredths
Profit(entry, stake, total) ==
    FRound2(FSub(FMul(FFromZ(stake), Price(entry.price)), FFromZ(total)))

\* mutant: an outcome that would lose money is given one more unit
ResultsCorrected(odds, stakes, total) ==
    [i \in 1..Len(odds) |->
       [name |-> odds[i].name, bookie |-> odds[i].bookie,
        odd |-> odds[i].price,
        stake |-> IF Profit(odds[i], stakes[i], total).s = -1
                  THEN ZAdd(stakes[i], ZFromInt(1)) ELSE stakes[i],
        profit |-> Profit(odds[i], stakes[i], total)]]

Results(odds, stakes, total) ==
    [i \in 1..Len(odds) |->
       [name |-> odds[i].name, bookie |-> odds[i].bookie,
        odd |-> odds[i].price, stake |-> stakes[i],
        profit |-> Profit(odds[i], stakes[i], total)]]

InStakes == pc \in {"stakes", "alone"}

\* lines 107-114: the integer parts of the ideal stakes, and the remainder
Floored(ideal, floors) ==
    /\ ideal_stakes' = ideal
    /\ rounded_stakes' = floors
    /\ remainder' = ZSub(total_stake, ZSum(floors, Len(floors)))
    /\ spc' = "floored"

\* lines 108-111: rounded_stakes
Truncated(ideal) == Floored(ideal, RoundedStakes(ideal))

\* lines 101-105: the ideal stakes; total_inverse = 0.0 raises
Shared(inverse_odds, total_inverse) ==
    IF total_inverse.s = 0
    THEN /\ spc' = "raised"
         /\ UNCHANGED <<ideal_stakes, rounded_stakes, remainder>>
    ELSE Truncated(IdealStakes(inverse_odds, total_inverse, total_stake))

\* line 99: total_inverse
Summed(inverse_odds) ==
    Shared(inverse_odds, FSum(inverse_odds, Len(inverse_odds)))

\* lines 97-114: the ideal stakes, their integer parts and the remainder
ComputeIdeal ==
    /\ InStakes /\ spc = "start"
    /\ IF \E i \in 1..Len(odds_dict) : odds_dict[i].price = 0
       THEN /\ spc' = "raised"          \* ZeroDivisionError, line 98
            /\ UNCHANGED <<ideal_stakes, rounded_stakes, remainder>>
       ELSE Summed(InverseOdds(odds_dict))
    /\ UNCHANGED <<odds_dict, total_stake, order, result, pipeVars>>

\* lines 115-121: if remainder > 0, rank the outcomes by their remainders
BeginAdjust ==
    /\ InStakes /\ spc = "floored"
    /\ IF remainder.s = 1
       THEN /\ order' = SortedDesc(StakeDiffs(ideal_stakes, rounded_stakes),
                                   Len(ideal_stakes))
            /\ spc' = "adjust"
       ELSE /\ order' = <<>>
            /\ spc' = "profits"
    /\ UNCHANGED <<odds_dict, total_stake, ideal_stakes, rounded_stakes,
                   remainder, result, pipeVars>>

\* lines 121-125: one turn of the loop over the ranked outcomes
AdjustStep ==
    /\ InStakes /\ spc = "adjust"
    /\ IF order = <<>> \/ remainder.s # 1
       THEN /\ spc' = "profits"
            /\ UNCHANGED <<rounded_stakes, remainder, order>>
       ELSE /\ rounded_stakes' =
                  [rounded_stakes EXCEPT ![Head(order)] = ZAdd(@, ZFromInt(1))]
            /\ remainder' = ZSub(remainder, ZFromInt(1))
            /\ order' = Tail(order)
            /\ spc' = "adjust"
    /\ UNCHANGED <<odds_dict, total_stake, ideal_stakes, result, pipeVars>>

\* lines 127-135: the profits, and the return
Profits ==
    /\ InStakes /\ spc = "profits"
    /\ result' = Results(odds_dict, rounded_stakes, total_stake)
    /\ spc' = "done"
    /\ UNCHANGED <<odds_dict, total_stake, ideal_stakes, rounded_stakes,
                   remainder, order, pipeVars>>

StakeIdle ==
    /\ odds_dict = <<>> /\ total_stake = ZZero /\ ideal_stakes = <<>>
    /\ rounded_stakes = <<>> /\ remainder = ZZero /\ order = <<>>
    /\ result = <<>> /\ spc = "idle"

\* the locals of a call of calculate_stakes that has returned are gone
StakeReset ==
    /\ odds_dict' = <<>> /\ total_stake' = ZZero /\ ideal_stakes' = <<>>
    /\ rounded_stakes' = <<>> /\ remainder' = ZZero /\ order' = <<>>
    /\ result' = <<>> /\ spc' = "idle"

PipeIdle ==
    /\ now = 0 /\ include_started_matches = TRUE /\ cutoff = CUTOFF
    /\ match = NoMatch /\ best_odds = <<>>
    /\ item = NoItem /\ last = "none"

\* calculate_stakes applied on its own to any odds mapping and total stake
InitStakes ==
    /\ PipeIdle /\ pc = "alone"
    /\ odds_dict \in OddsDicts
    /\ total_stake \in Stakes
    /\ ideal_stakes = <<>> /\ rounded_stakes = <<>> /\ remainder = ZZero
    /\ order = <<>> /\ result = <<>> /\ spc = "start"

NextStakes == ComputeIdeal \/ BeginAdjust \/ AdjustStep \/ Profits

SpecStakes == InitStakes /\ [][NextStakes]_vars

\* calculate_stakes applied on its own to a total stake above 2^53
InitLarge ==
    /\ PipeIdle /\ pc = "alone"
    /\ odds_dict \in OddsDicts
    /\ total_stake \in LargeStakes
    /\ ideal_stakes = <<>> /\ rounded_stakes = <<>> /\ remainder = ZZero
    /\ order = <<>> /\ result = <<>> /\ spc = "start"

SpecLarge == InitLarge /\ [][NextStakes]_vars

(***************************************************************************)
(* process_data(matches, include_started_matches)                          *)
(***************************************************************************)
\* dict.get(key, default) for a key that holds <<>> or <<value>>
Get(field, default) == IF field = <<>> THEN default ELSE field[1]

\* str() of a value .get() returned: None for an absent key
Str(field) == Get(field, "None")

\* the position of name among the keys of best, 0 when it is not a key
RECURSIVE KeyIndex(_, _, _)
KeyIndex(best, name, i) ==
    IF i > Len(best) THEN 0
    ELSE IF best[i].name = name THEN i
    ELSE KeyIndex(best, name, i + 1)

\* mutant: the last quote of an outcome replaces the stored one
AssignLast(best, title, outcome, k) ==
    IF k = 0
    THEN Append(best, [name |-> outcome.name, bookie |-> title,
                       price |-> outcome.price])
    ELSE [best EXCEPT ![k] = [name |-> outcome.name, bookie |-> title,
                              price |-> outcome.price]]

\* mutant: a quote that equals the stored price replaces it
AssignOnTie(best, title, outcome, k) ==
    IF k = 0
    THEN Append(best, [name |-> outcome.name, bookie |-> title,
                       price |-> outcome.price])
    ELSE IF outcome.price >= best[k].price
    THEN [best EXCEPT ![k] = [name |-> outcome.name, bookie |-> title,
                              price |-> outcome.price]]
    ELSE best

\* lines 73-76 for one outcome, k the position of its name in best
Assign(best, title, outcome, k) ==
    IF k = 0
    THEN Append(best, [name |-> outcome.name, bookie |-> title,
                       price |-> outcome.price])
    ELSE IF outcome.price > best[k].price
    THEN [best EXCEPT ![k] = [name |-> outcome.name, bookie |-> title,
                              price |-> outcome.price]]
    ELSE best

UpdateBest(best, title, outcome) ==
    Assign(best, title, outcome, KeyIndex(best, outcome.name, 1))

\* lines 72-76: the loop over the outcomes of one bookmaker
RECURSIVE ScanOutcomes(_, _, _, _)
ScanOutcomes(best, title, outs, i) ==
    IF i > Len(outs) THEN best
    ELSE ScanOutcomes(UpdateBest(best, title, outs[i]), title, outs, i + 1)

\* bookmaker.get("markets", [{}])
MarketsOf(bookmaker) == Get(bookmaker.markets, <<[outcomes |-> <<>>]>>)

\* sum(1 / odds for _, odds in best_odds.values())
TotalImplied(best) ==
    FSum([i \in 1..Len(best) |-> FDiv(FFromInt(1), Price(best[i].price))],
         Len(best))

\* round((start_time - time.time()) / 3600, 2), in hundredths
HoursToStart(start, clock) ==
    FRound2(FDiv(FFromInt(start - clock), FFromInt(3600)))

\* mutant: a match that starts at this very second counts as started
NextMatchAtStart ==
    /\ pc = "next"
    /\ \E m \in MatchHeaders :
         /\ match' = m
         /\ IF m.commence_time = <<>>
            THEN /\ pc' = "raised"
                 /\ last' = "error"
            ELSE IF ~include_started_matches /\ m.commence_time[1] <= now
            THEN /\ pc' = "next"
                 /\ last' = "started"
            ELSE /\ pc' = "scan"
                 /\ last' = "scanning"
    /\ best_odds' = <<>>
    /\ item' = NoItem
    /\ StakeReset
    /\ UNCHANGED <<now, include_started_matches, cutoff>>

\* mutant: a match without commence time is skipped instead of failing
NextMatchLenient ==
    /\ pc = "next"
    /\ \E m \in MatchHeaders :
         /\ match' = m
         /\ IF m.commence_time = <<>>
            THEN /\ pc' = "next"
                 /\ last' = "started"
            ELSE IF ~include_started_matches /\ m.commence_time[1] < now
            THEN /\ pc' = "next"
                 /\ last' = "started"
            ELSE /\ pc' = "scan"
                 /\ last' = "scanning"
    /\ best_odds' = <<>>
    /\ item' = NoItem
    /\ StakeReset
    /\ UNCHANGED <<now, include_started_matches, cutoff>>

\* line 65 to 68: the next match of the data, its start time and the
\* filter on started matches
NextMatch ==
    /\ pc = "next"
    /\ \E m \in MatchHeaders :
         /\ match' = m
         /\ IF m.commence_time = <<>>
            THEN /\ pc' = "raised"             \* KeyError, line 66
                 /\ last' = "error"
            ELSE IF ~include_started_matches /\ m.commence_time[1] < now
            THEN /\ pc' = "next"               \* continue, line 68
                 /\ last' = "started"
            ELSE /\ pc' = "scan"
                 /\ last' = "scanning"
    /\ best_odds' = <<>>
    /\ item' = NoItem
    /\ StakeReset
    /\ UNCHANGED <<now, include_started_matches, cutoff>>

\* lines 71-76: the next bookmaker of the match
ScanBookmaker ==
    /\ pc = "scan" /\ Len(match.bookmakers) < MaxBookmakers
    /\ \E b \in BookmakerDicts :
         LET bookmaker == [title |-> Len(match.bookmakers) + 1,
                           markets |-> b.markets]
         IN  /\ match' = [match EXCEPT !.bookmakers = Append(@, bookmaker)]
             /\ IF MarketsOf(bookmaker) = <<>>
                THEN /\ pc' = "raised"         \* IndexError, line 72
                     /\ last' = "error"
                     /\ best_odds' = best_odds
                ELSE /\ best_odds' =
                          ScanOutcomes(best_odds, bookmaker.title,
                                       Get(MarketsOf(bookmaker)[1].outcomes,
                                           <<>>), 1)
                     /\ UNCHANGED <<pc, last>>
    /\ UNCHANGED <<now, include_started_matches, cutoff, item,
                   stakeVars>>

\* lines 81-89: the dict process_data yields
Yield(total_implied) ==
    /\ item' = <<[match_name |-> <<Str(match.home_team), Str(match.away_team)>>,
                  match_start_time |-> match.commence_time[1],
                  hours_to_start |-> HoursToStart(match.commence_time[1], now),
                  league |-> match.sport_key,
                  best_odds |-> best_odds,
                  total_implied_odds |-> total_implied]>>
    /\ pc' = "yielded"
    /\ last' = "yielded"

\* lines 78-89, once the bookmakers of the match are exhausted
FinishMatch ==
    /\ pc = "scan"
    /\ IF Len(best_odds) < 2
       THEN /\ pc' = "next"                    \* continue, line 79
            /\ last' = "few"
            /\ item' = item
       ELSE IF \E i \in 1..Len(best_odds) : best_odds[i].price = 0
       THEN /\ pc' = "raised"                  \* ZeroDivisionError, line 81
            /\ last' = "error"
            /\ item' = item
       ELSE Yield(TotalImplied(best_odds))
    /\ UNCHANGED <<now, include_started_matches, cutoff, match,
                   best_odds, stakeVars>>

(***************************************************************************)
(* get_arbitrage_opportunities(key, region, cutoff)                        *)
(***************************************************************************)
\* mutant: the upper bound is not strict
QualifiesInclusive(x, c) ==
    /\ FLess(FZero, x)
    /\ ~FLess(FSub(FFromInt(1), FFromRatio(c, 100)), x)

\* 0 < x < 1 - cutoff
Qualifies(x, c) ==
    /\ FLess(FZero, x)
    /\ FLess(x, FSub(FFromInt(1), FFromRatio(c, 100)))

\* lines 143-150: the filter, and the call of calculate_stakes
Detect ==
    /\ pc = "yielded"
    /\ IF Qualifies(item[1].total_implied_odds, cutoff)
       THEN /\ pc' = "stakes"
            /\ last' = "opportunity"
            /\ odds_dict' = item[1].best_odds
            /\ total_stake' = ZFromInt(TOTAL_STAKE)
            /\ spc' = "start"
            /\ UNCHANGED <<ideal_stakes, rounded_stakes, remainder, order,
                           result>>
       ELSE /\ pc' = "next"
            /\ last' = "rejected"
            /\ UNCHANGED stakeVars
    /\ UNCHANGED <<now, include_started_matches, cutoff, match,
                   best_odds, item>>

\* lines 151-161: the report, then the next match
Report ==
    /\ pc = "stakes" /\ spc = "done"
    /\ pc' = "next"
    /\ last' = "reported"
    /\ UNCHANGED <<now, include_started_matches, cutoff, match,
                   best_odds, item, stakeVars>>

\* the data is exhausted: the loops end, and their locals with them
Exhausted ==
    /\ pc = "next"
    /\ pc' = "done"
    /\ last' = "none"
    /\ match' = NoMatch
    /\ best_odds' = <<>>
    /\ item' = NoItem
    /\ StakeReset
    /\ UNCHANGED <<now, include_started_matches, cutoff>>

\* time passes before time.time() is read, at line 67 and at line 85
Tick ==
    /\ now < MaxTime
    /\ pc \in {"next", "scan"}
    /\ now' = now + 1
    /\ UNCHANGED <<include_started_matches, cutoff, match,
                   best_odds, item, pc, last, stakeVars>>

Init ==
    /\ now = 0
    /\ include_started_matches \in BOOLEAN
    /\ cutoff \in Cutoffs
    /\ match = NoMatch /\ best_odds = <<>> /\ item = NoItem
    /\ pc = "next" /\ last = "none"
    /\ StakeIdle

Next ==
    \/ NextMatch \/ ScanBookmaker \/ FinishMatch \/ Detect
    \/ ComputeIdeal \/ BeginAdjust \/ AdjustStep \/ Profits
    \/ Report \/ Exhausted \/ Tick

Spec == Init /\ [][Next]_vars

(***************************************************************************)
(* Properties of calculate_stakes, checked under SpecStakes.               *)
(***************************************************************************)
AllPositive(odds) == \A i \in 1..Len(odds) : odds[i].price > 0

StakeOf(res) == [i \in 1..Len(res) |-> res[i].stake]

\* C1: for an odds mapping with two or more outcomes, all prices positive,
\* and a positive integer total stake, the stakes calculate_stakes returns
\* sum exactly to the total stake.
C1_StakesSumToTotal ==
    (spc = "done" /\ AllPositive(odds_dict))
        => ZSum(StakeOf(result), Len(result)) = total_stake

\* the total implied odds of the mapping calculate_stakes is working on
ImpliedOfCall == TotalImplied(odds_dict)

\* stake * price - total_stake < 0 for outcome i
LosesOn(i) ==
    FSub(FMul(FFromZ(rounded_stakes[i]), Price(odds_dict[i].price)),
         FFromZ(total_stake)).s = -1

\* the integer part of the ideal share of outcome i
FloorOf(i) == FTrunc(ideal_stakes[i])

\* stake is the floor of outcome i, or one unit more
AtMostOneAbove(stake, i) ==
    stake = FloorOf(i) \/ stake = ZAdd(FloorOf(i), ZFromInt(1))

\* C7: a mapping that passes the arbitrage filter can have an outcome whose
\* actual profit is negative; calculate_stakes then raises nothing and
\* returns the allocation as it stands, the stakes not corrected further
\* and the negative profit reported.
C7_LossIsReturned ==
    /\ spc = "raised" => ~AllPositive(odds_dict)
    /\ (/\ spc = "done" /\ AllPositive(odds_dict)
        /\ Qualifies(ImpliedOfCall, cutoff)
        /\ \E i \in 1..Len(odds_dict) : LosesOn(i))
          => /\ Len(result) = Len(odds_dict)
             /\ \A i \in 1..Len(result) :
                   /\ result[i].stake = rounded_stakes[i]
                   /\ AtMostOneAbove(result[i].stake, i)
                   /\ LosesOn(i) => result[i].profit.s = -1

\* a qualifying mapping whose returned allocation sums to the total stake
\* and loses on some outcome
C7_Witness ==
    /\ spc = "done" /\ AllPositive(odds_dict)
    /\ Qualifies(ImpliedOfCall, cutoff)
    /\ ZSum(StakeOf(result), Len(result)) = total_stake
    /\ \E i \in 1..Len(odds_dict) : LosesOn(i) /\ result[i].profit.s = -1

\* the fractional part of the ideal share of outcome i
FractionOf(i) == FSub(ideal_stakes[i], FFromZ(FloorOf(i)))

\* how many outcomes are ranked before outcome i: those with a larger
\* fractional part, and the earlier ones with the same fractional part
RankOf(i) ==
    Cardinality({j \in 1..Len(ideal_stakes) :
        \/ FLess(FractionOf(i), FractionOf(j))
        \/ FractionOf(j) = FractionOf(i) /\ j < i})

\* total_stake minus the sum of the floors
LeftOver ==
    ZSub(total_stake,
         ZSum([i \in 1..Len(ideal_stakes) |-> FloorOf(i)], Len(ideal_stakes)))

C9_RemainderBelowOutcomes ==
    /\ (spc = "floored" /\ AllPositive(odds_dict))
          => /\ remainder.s >= 0
             /\ ZLess(remainder, ZFromInt(Len(odds_dict)))
    /\ (spc = "profits" /\ AllPositive(odds_dict))
          => /\ remainder = ZZero
             /\ \A i \in 1..Len(odds_dict) :
                   AtMostOneAbove(rounded_stakes[i], i)

(***************************************************************************)
(* Properties of process_data and get_arbitrage_opportunities, checked     *)
(* under Spec.                                                             *)
(***************************************************************************)
\* the outcomes of the first market of a bookmaker that was read
FirstOutcomes(bookmaker) ==
    IF MarketsOf(bookmaker) = <<>> THEN <<>>
    ELSE Get(MarketsOf(bookmaker)[1].outcomes, <<>>)

\* the prices the bookmakers of m quote for name in their first market
QuotedPrices(m, name) ==
    {FirstOutcomes(m.bookmakers[b])[o].price :
        <<b, o>> \in {<<b, o>> \in (1..Len(m.bookmakers)) \X (1..MaxOutcomes) :
            /\ o <= Len(FirstOutcomes(m.bookmakers[b]))
            /\ FirstOutcomes(m.bookmakers[b])[o].name = name}}

\* the bookmakers of m that quote name at price in their first market
QuotingAt(m, name, price) ==
    {b \in 1..Len(m.bookmakers) :
        \E o \in 1..Len(FirstOutcomes(m.bookmakers[b])) :
            /\ FirstOutcomes(m.bookmakers[b])[o].name = name
            /\ FirstOutcomes(m.bookmakers[b])[o].price = price}

\* C2: for every outcome name in the best_odds of a yielded match, the
\* recorded price is the maximum price quoted for that name by any
\* bookmaker of the match in its first market.
C2_BestPriceIsMaximum ==
    pc = "yielded" =>
        \A k \in 1..Len(item[1].best_odds) :
            /\ item[1].best_odds[k].price
                  \in QuotedPrices(match, item[1].best_odds[k].name)
            /\ \A q \in QuotedPrices(match, item[1].best_odds[k].name) :
                  q <= item[1].best_odds[k].price

\* a yielded match whose first bookmaker quoted more than a later one
C2_Witness ==
    /\ pc = "yielded"
    /\ Len(match.bookmakers) = 2
    /\ \E k \in 1..Len(item[1].best_odds) :
          /\ item[1].best_odds[k].bookie = 1
          /\ \E q \in QuotedPrices(match, item[1].best_odds[k].name) :
                q < item[1].best_odds[k].price
          /\ QuotingAt(match, item[1].best_odds[k].name,
                       item[1].best_odds[k].price) = {1}
          /\ \E q \in 1..item[1].best_odds[k].price - 1 :
                QuotingAt(match, item[1].best_odds[k].name, q) = {2}

\* C10: when several bookmakers quote the same best price for an outcome,
\* the bookmaker recorded is the first of them in iteration order.
C10_FirstBookmakerKeepsTie ==
    pc = "yielded" =>
        \A k \in 1..Len(item[1].best_odds) :
            /\ item[1].best_odds[k].bookie
                  \in QuotingAt(match, item[1].best_odds[k].name,
                                item[1].best_odds[k].price)
            /\ \A b \in QuotingAt(match, item[1].best_odds[k].name,
                                  item[1].best_odds[k].price) :
                  item[1].best_odds[k].bookie <= b

\* a yielded match with two bookmakers tied on the best price of an outcome
C10_Witness ==
    /\ pc = "yielded"
    /\ \E k \in 1..Len(item[1].best_odds) :
          /\ QuotingAt(match, item[1].best_odds[k].name,
                       item[1].best_odds[k].price) = {1, 2}
          /\ item[1].best_odds[k].bookie = 1

\* 1 - cutoff
Threshold(c) == FSub(FFromInt(1), FFromRatio(c, 100))

\* x lies strictly between 0 and the threshold
StrictlyInside(x, c) ==
    /\ x.s = 1 /\ x # FZero
    /\ x # Threshold(c)
    /\ ~FLess(Threshold(c), x)

\* C3: a yielded match is passed to calculate_stakes and reported exactly
\* when 0 < total_implied_odds < 1 - cutoff, both bounds strict.
C3_StrictWindow ==
    /\ last \in {"opportunity", "reported"}
          => StrictlyInside(item[1].total_implied_odds, cutoff)
    /\ last = "rejected"
          => ~StrictlyInside(item[1].total_implied_odds, cutoff)
    /\ pc = "stakes" <=> last = "opportunity"

\* a match whose total implied odds equal 1 - cutoff was not reported
C3_Witness ==
    /\ last = "rejected"
    /\ item[1].total_implied_odds = Threshold(cutoff)

\* C4: with include_started_matches false a match whose commence time is
\* before the current time is skipped; otherwise the match is processed,
\* and yielded when it has at least two outcomes, whatever its total
\* implied odds.
C4_StartedMatches ==
    [][/\ (pc = "next" /\ pc' # "done" /\ now' = now
             /\ match'.commence_time # <<>>)
          => /\ (pc' = "next" /\ last' = "started")
                   <=> (~include_started_matches
                          /\ match'.commence_time[1] < now)
             /\ pc' = "scan"
                   <=> ~(~include_started_matches
                           /\ match'.commence_time[1] < now)
       /\ (pc = "scan" /\ pc' \in {"next", "yielded"})
          => (pc' = "yielded" <=> Len(best_odds) >= 2)]_vars

\* a started match was skipped
C4_Witness ==
    /\ last = "started" /\ pc = "next"
    /\ ~include_started_matches
    /\ match.commence_time # <<>> /\ match.commence_time[1] < now

\* the bookmaker's market list is empty, or its first market has no outcomes
Barren(bookmaker) ==
    \/ bookmaker.markets = << <<>> >>
    \/ /\ MarketsOf(bookmaker) # <<>>
       /\ Get(MarketsOf(bookmaker)[1].outcomes, <<>>) = <<>>

\* C5: a bookmaker whose market list is empty, or whose first market has
\* zero outcomes, contributes nothing to best_odds and raises no error.
C5_BarrenBookmaker ==
    [][(/\ pc = "scan"
        /\ Len(match'.bookmakers) = Len(match.bookmakers) + 1
        /\ Barren(match'.bookmakers[Len(match'.bookmakers)]))
          => (pc' = "scan" /\ best_odds' = best_odds)]_vars

\* C6: a raw match missing home_team, away_team or commence_time makes
\* process_data fail for that match; nothing is yielded for it with a
\* default in place of the missing field.
C6_MissingFieldRaises ==
    /\ (last # "none" /\ (\/ match.home_team = <<>>
                          \/ match.away_team = <<>>
                          \/ match.commence_time = <<>>))
          => pc = "raised"
    /\ pc = "yielded"
          => /\ match.home_team # <<>>
             /\ match.away_team # <<>>
             /\ match.commence_time # <<>>

\* C6, as the code has it: only a missing commence_time makes process_data
\* fail; a match without home_team or away_team is processed like any
\* other, and its match_name carries "None" for the missing team.  The
\* matches skipped without error are those with fewer than two outcomes
\* and those already started when started matches are excluded.
C6_OnlyCommenceTimeRaises ==
    /\ (last # "none" /\ match.commence_time = <<>>)
          => (pc = "raised" /\ last = "error" /\ item = NoItem)
    /\ last = "few" => Len(best_odds) < 2
    /\ last = "started" => ~include_started_matches
    /\ item # NoItem
          => /\ match.commence_time # <<>>
             /\ item[1].match_start_time = match.commence_time[1]
             /\ item[1].match_name =
                   <<IF match.home_team = <<>> THEN "None"
                     ELSE match.home_team[1],
                     IF match.away_team = <<>> THEN "None"
                     ELSE match.away_team[1]>>

\* a match without home_team was yielded under the name "None"
C6_Witness ==
    /\ pc = "yielded"
    /\ match.home_team = <<>>
    /\ item[1].match_name[1] = "None"

====
